---- MODULE Spec2Model ----
(***************************************************************************)
(* Model of src/ingest_data.py: main(params) downloads a gzipped CSV,      *)
(* reads it in chunks with pandas, converts the two tpep_* columns with    *)
(* pd.to_datetime, creates the destination table from the first chunk     *)
(* (to_sql if_exists='replace' on df.head(n=0)) and appends every chunk    *)
(* (to_sql if_exists='append').                                            *)
(*                                                                         *)
(* Sizes are scaled down: the chunk size (10000 at line 29) is drawn from  *)
(* 1..MaxChunk and a source holds at most MaxRecords records.              *)
(***************************************************************************)
EXTENDS Integers, Sequences, FiniteSets, TLC

\* ------------------------------------------------------------------ bounds
MaxRecords == 5
MaxChunk == 2
MaxRuns == 2

\* ------------------------------------------------------------ data values
\* A cell of a timestamp column: <<dtype, text>>.  read_csv yields the text
\* as dtype "object"; pd.to_datetime yields dtype "datetime64[ns]".
GoodText == "2019-01-01 00:10:00"
BadText == "not a date"

RecordKinds == {"ok", "bad_pickup", "bad_dropoff", "malformed"}

\* Header of the CSV file: the columns main() touches plus one ordinary column.
CsvColumns == <<"VendorID", "tpep_pickup_datetime", "tpep_dropoff_datetime">>

\* The i-th line of the file after the header, of the given kind: its fields
\* as the parser tokenizes them.  A malformed line has a field too many.
RawRecord(i, kind) ==
    << i,
       <<"object", IF kind = "bad_pickup" THEN BadText ELSE GoodText>>,
       <<"object", IF kind = "bad_dropoff" THEN BadText ELSE GoodText>> >>
    \o (IF kind = "malformed" THEN <<"extra field">> ELSE << >>)

\* The url parameter: what matters of it to main() is whether it ends in
\* '.csv.gz'.
Urls ==
    { [stem |-> "https://host/green_tripdata_2019-01", suffix |-> sfx] :
        sfx \in {".csv.gz", ".csv"} }

\* lines 18-21: the local file name chosen from the url.
CsvName(u) == IF u.suffix = ".csv.gz" THEN "output.csv.gz" ELSE "output.csv"

CompressionInferred(name) == IF name = "output.csv.gz" THEN "gzip" ELSE "none"

\* line 29: the compression= argument of read_csv, whatever the file name.
Compression(name) == "gzip"

\* The files wget can have left at csv_name, whatever the url's suffix: a
\* gzipped CSV with a header and n >= 0 records, a zero-byte file (nothing
\* to parse), or a file that is not gzipped (records: what a gzip reader
\* gets out of it, nothing).
Sources ==
    { [kind |-> "empty_file", records |-> << >>],
      [kind |-> "not_gzipped", records |-> << >>] } \cup
    { [kind |-> "gzip_csv", records |-> [i \in 1..n |-> RawRecord(i, ks[i])]] :
        n \in 0..MaxRecords, ks \in [1..MaxRecords -> RecordKinds] }

\* What the destination may hold under table_name before the first run.
NoTable == [exists |-> FALSE, columns |-> << >>, rows |-> << >>]
OldTable == [exists |-> TRUE, columns |-> <<"index", "old_col">>,
             rows |-> << <<0, 77>>, <<1, 78>> >>]
PriorTables == {NoTable, OldTable}

\* ----------------------------------------------------------- pure helpers
Min(a, b) == IF a < b THEN a ELSE b

NoFrame == [index |-> << >>, columns |-> << >>, data |-> << >>]

\* TextFileReader.__next__ / get_chunk(chunksize): the next up to `size`
\* records after the cursor, labelled with their global row numbers.
ReadChunk(records, currow, size) ==
    LET n == Min(size, Len(records) - currow)
    IN [index |-> [j \in 1..n |-> currow + j - 1],
        columns |-> CsvColumns,
        data |-> [j \in 1..n |-> records[currow + j]]]

\* The parser raises ParserError when a line of the chunk it tokenizes does
\* not have the header's number of fields.
ParserRaises(records, currow, size) ==
    \E j \in 1..Min(size, Len(records) - currow) :
        Len(records[currow + j]) # Len(CsvColumns)

\* pd.to_datetime on one cell.
Parsable(cell) == cell[2] # BadText
ToDatetime(cell) == <<"datetime64[ns]", cell[2]>>

ToDatetimeRaisesPickupOnly(frame) ==
    \E j \in 1..Len(frame.data) : ~Parsable(frame.data[j][2])

\* pd.to_datetime(df.tpep_pickup_datetime) / (df.tpep_dropoff_datetime)
\* raises when some value of the column cannot be parsed.
ToDatetimeRaises(frame) ==
    \E j \in 1..Len(frame.data) :
        ~Parsable(frame.data[j][2]) \/ ~Parsable(frame.data[j][3])

\* The frame after both column assignments (lines 33-34, 48-49).
Normalize(frame) ==
    [frame EXCEPT !.data =
        [j \in 1..Len(frame.data) |->
            <<frame.data[j][1], ToDatetime(frame.data[j][2]),
              ToDatetime(frame.data[j][3])>>]]

\* df.head(n=0): same columns, no rows.
Head0(frame) == [frame EXCEPT !.index = << >>, !.data = << >>]

\* DataFrame.to_sql writes the frame's index as a leading column named
\* "index" (index=True is the default and main() does not override it).
SqlColumns(frame) == <<"index">> \o frame.columns
SqlRows(frame) ==
    [j \in 1..Len(frame.data) |-> <<frame.index[j]>> \o frame.data[j]]

ToSqlReplaceKeepsRows(tbl, frame, if_exists) ==
    IF ~tbl.exists
    THEN [exists |-> TRUE, columns |-> SqlColumns(frame), rows |-> SqlRows(frame)]
    ELSE [exists |-> TRUE,
          columns |-> IF if_exists = "replace" THEN SqlColumns(frame) ELSE tbl.columns,
          rows |-> tbl.rows \o SqlRows(frame)]

\* DataFrame.to_sql(name, con, if_exists): 'replace' drops an existing table
\* and creates it from the frame; 'append' inserts into an existing table
\* (creating it when absent).  The frame's rows are inserted in order.
ToSql(tbl, frame, if_exists) ==
    IF if_exists = "replace" \/ ~tbl.exists
    THEN [exists |-> TRUE, columns |-> SqlColumns(frame), rows |-> SqlRows(frame)]
    ELSE [tbl EXCEPT !.rows = tbl.rows \o SqlRows(frame)]

FailedInsertKeepsFirstRow(tbl, frame) ==
    [tbl EXCEPT !.rows = tbl.rows \o SubSeq(SqlRows(frame), 1, Min(1, Len(frame.data)))]

\* The table after to_sql(if_exists='append') raised: the frame's rows are
\* inserted in one transaction, which the error rolls back.
FailedInsert(tbl, frame) == tbl

\* The if_exists arguments main() passes at lines 36, 38 and 51.
IfExistsBootstrapAppend == "append"
IfExistsBootstrap == "replace"
IfExistsFirst == "append"
IfExistsLoopReplace == "replace"
IfExistsLoop == "append"

\* --------------------------------------------------------------- state
VARIABLES
    url,        \* params.url: [stem, suffix]
    csv_name,   \* the local file name main() chose ("" before line 18)
    wrote,      \* observation: the file name wget was told to write (-O)
    source,     \* the file at csv_name (the same at every run)
    chunksize,  \* chunksize= of read_csv
    table,      \* the destination table table_name in the database
    pc,         \* position of main(): the line about to execute, or "raised"
    err,        \* the exception that escaped main(): [kind, line]
    engine,     \* "none" | "created" (no connection yet) | "pooled" (pool holds one)
    reader,     \* df_iter: [open, currow, first_chunk] and the path and
                \* compression read_csv was called with
    df,         \* the current chunk
    t_start,    \* t_start of the loop body
    clock,      \* time(): advanced by every read, conversion and to_sql
    printed,    \* the elapsed times print() wrote, in order
    run,        \* number of the current invocation of the script
    yielded,    \* observation: the chunks next(df_iter) returned this run
    dbops,      \* observation: the to_sql calls of this run, in order
    tableBefore,\* observation: the table when this run started
    finals      \* observation: [table, err] at the end of each earlier run

vars == <<url, csv_name, wrote, source, chunksize, table, pc, err, engine, reader, df, t_start,
          clock, printed, run, yielded, dbops, tableBefore, finals>>

NoErr == [kind |-> "none", line |-> 0]
NoReader == [open |-> FALSE, currow |-> 0, first_chunk |-> TRUE,
             path |-> "", compression |-> ""]

\* A fresh process: everything main() owns is new; the database and the
\* downloaded file's content are what they are.
FreshProcess ==
    /\ pc = "download"
    /\ csv_name = ""
    /\ wrote = ""
    /\ err = NoErr
    /\ engine = "none"
    /\ reader = NoReader
    /\ df = NoFrame
    /\ t_start = 0
    /\ clock = 0
    /\ printed = << >>
    /\ yielded = << >>
    /\ dbops = << >>

Init ==
    /\ url \in Urls
    /\ source \in Sources
    /\ chunksize \in 1..MaxChunk
    /\ table \in PriorTables
    /\ tableBefore = table
    /\ run = 1
    /\ finals = << >>
    /\ FreshProcess

RaiseAndRetry(kind, line) ==
    /\ pc' = pc
    /\ err' = [kind |-> kind, line |-> line]

\* An exception escapes main(): nothing catches it, the process ends.
Raise(kind, line) ==
    /\ pc' = "raised"
    /\ err' = [kind |-> kind, line |-> line]

\* lines 18-23: choose csv_name from the url's suffix and run
\* wget {url} -O {csv_name}; its exit status is not looked at.
Download ==
    /\ pc = "download"
    /\ csv_name' = CsvName(url)
    /\ wrote' = csv_name'
    /\ pc' = "create_engine"
    /\ UNCHANGED <<url, source, chunksize, table, err, engine, reader, df,
                   t_start, clock, printed, run, yielded, dbops, tableBefore,
                   finals>>

\* line 25: create_engine builds the engine; it connects on first use.
CreateEngine ==
    /\ pc = "create_engine"
    /\ engine' = "created"
    /\ pc' = "read_csv"
    /\ UNCHANGED <<url, csv_name, wrote, source, chunksize, table, err, reader, df, t_start, clock,
                   printed, run, yielded, dbops, tableBefore, finals>>

\* line 29: pd.read_csv(csv_name, iterator=True, chunksize=...,
\* compression='gzip') opens csv_name through gzip and parses the header; a
\* file with nothing to parse raises EmptyDataError, a file that is not
\* gzipped raises BadGzipFile.  No reader exists after either.
ReadCsv ==
    /\ pc = "read_csv"
    /\ \/ /\ source.kind = "gzip_csv"
          /\ reader' = [open |-> TRUE, currow |-> 0, first_chunk |-> TRUE,
                        path |-> csv_name,
                        compression |-> Compression(csv_name)]
          /\ pc' = "next_first"
          /\ err' = err
       \/ /\ source.kind = "empty_file"
          /\ Raise("EmptyDataError", 29)
          /\ reader' = [reader EXCEPT !.path = csv_name,
                                      !.compression = Compression(csv_name)]
       \/ /\ source.kind = "not_gzipped"
          /\ Raise("BadGzipFile", 29)
          /\ reader' = [reader EXCEPT !.path = csv_name,
                                      !.compression = Compression(csv_name)]
    /\ UNCHANGED <<url, csv_name, wrote, source, chunksize, table, engine, df, t_start, clock,
                   printed, run, yielded, dbops, tableBefore, finals>>

\* next(df_iter) returns a chunk while records remain; the first call on a
\* file with a header and no records returns an empty frame (the parser's
\* first-chunk case); any later call at the end raises StopIteration.
HasNext(rd, records) == rd.currow < Len(records) \/ rd.first_chunk

\* The reader after a successful next(): the cursor moved past the chunk.
Advance(rd, frame) ==
    [rd EXCEPT !.currow = rd.currow + Len(frame.data), !.first_chunk = FALSE]

\* TextFileReader closes itself before StopIteration or a parser error
\* leaves next().
Exhausted(rd) == [rd EXCEPT !.open = FALSE]

\* line 31: df = next(df_iter).  read_csv has parsed a header, so the first
\* call always returns a frame (an empty one when no record follows the
\* header): HasNext holds here and StopIteration cannot leave line 31.
NextFirst ==
    /\ pc = "next_first"
    /\ HasNext(reader, source.records)
    /\ \/ /\ ~ParserRaises(source.records, reader.currow, chunksize)
          /\ df' = ReadChunk(source.records, reader.currow, chunksize)
          /\ reader' = Advance(reader, df')
          /\ yielded' = Append(yielded, df')
          /\ pc' = "to_datetime_first"
          /\ err' = err
       \/ /\ ParserRaises(source.records, reader.currow, chunksize)
          /\ Raise("ParserError", 31)
          /\ reader' = Exhausted(reader)
          /\ UNCHANGED <<df, yielded>>
    /\ clock' = clock + 1
    /\ UNCHANGED <<url, csv_name, wrote, source, chunksize, table, engine, t_start, printed,
                   run, dbops, tableBefore, finals>>

NormalizeFirstAfterReplace ==
    /\ pc = "to_datetime_first"
    /\ table' = ToSql(table, Head0(df), IfExistsBootstrap)
    /\ dbops' = Append(dbops, [op |-> IfExistsBootstrap, ok |-> TRUE,
                               batch |-> Len(yielded) - 1])
    /\ \/ /\ ~ToDatetimeRaises(df)
          /\ df' = Normalize(df)
          /\ pc' = "to_sql_first"
          /\ err' = err
       \/ /\ ToDatetimeRaises(df)
          /\ Raise("DateParseError", 33)
          /\ df' = df
    /\ clock' = clock + 1
    /\ UNCHANGED <<url, csv_name, wrote, source, chunksize, engine, reader, t_start, printed,
                   run, yielded, tableBefore, finals>>

\* lines 33-34: the two to_datetime assignments on the first chunk
NormalizeFirst ==
    /\ pc = "to_datetime_first"
    /\ \/ /\ ~ToDatetimeRaises(df)
          /\ df' = Normalize(df)
          /\ pc' = "to_sql_replace"
          /\ err' = err
       \/ /\ ToDatetimeRaises(df)
          /\ Raise("DateParseError", 33)
          /\ df' = df
    /\ clock' = clock + 1
    /\ UNCHANGED <<url, csv_name, wrote, source, chunksize, table, engine, reader, t_start, printed,
                   run, yielded, dbops, tableBefore, finals>>

\* One to_sql call as seen by the database log of the run.
DbOp(op, ok) == [op |-> op, ok |-> ok, batch |-> Len(yielded) - 1]

\* line 36: df.head(n=0).to_sql(name=table_name, con=engine, if_exists='replace')
\* The database may reject the statement (privilege, name, connection); the
\* drop may or may not have taken effect by then.
Bootstrap ==
    /\ pc = "to_sql_replace"
    /\ engine' = "pooled"
    /\ \/ /\ table' = ToSql(table, Head0(df), IfExistsBootstrap)
          /\ dbops' = Append(dbops, DbOp(IfExistsBootstrap, TRUE))
          /\ pc' = "to_sql_first"
          /\ err' = err
       \/ /\ table' \in {table, NoTable}
          /\ dbops' = Append(dbops, DbOp(IfExistsBootstrap, FALSE))
          /\ Raise("SQLAlchemyError", 36)
    /\ clock' = clock + 1
    /\ UNCHANGED <<url, csv_name, wrote, source, chunksize, reader, df, t_start, printed, run,
                   yielded, tableBefore, finals>>

AppendFirstLeftOut ==
    /\ pc = "to_sql_first"
    /\ pc' = "loop"
    /\ UNCHANGED <<url, csv_name, wrote, source, chunksize, table, err, engine, reader, df, t_start,
                   clock, printed, run, yielded, dbops, tableBefore, finals>>

\* line 38: df.to_sql(name=table_name, con=engine, if_exists='append')
\* The insert of a frame is one transaction: a rejected insert leaves the
\* table as it was.
AppendFirst ==
    /\ pc = "to_sql_first"
    /\ \/ /\ table' = ToSql(table, df, IfExistsFirst)
          /\ dbops' = Append(dbops, DbOp(IfExistsFirst, TRUE))
          /\ pc' = "loop"
          /\ err' = err
       \/ /\ table' = FailedInsert(table, df)
          /\ dbops' = Append(dbops, DbOp(IfExistsFirst, FALSE))
          /\ Raise("SQLAlchemyError", 38)
    /\ clock' = clock + 1
    /\ UNCHANGED <<url, csv_name, wrote, source, chunksize, engine, reader, df, t_start, printed,
                   run, yielded, tableBefore, finals>>

\* lines 43-44: while True: t_start = time()
LoopStart ==
    /\ pc = "loop"
    /\ t_start' = clock
    /\ pc' = "next_loop"
    /\ UNCHANGED <<url, csv_name, wrote, source, chunksize, table, err, engine, reader, df, clock,
                   printed, run, yielded, dbops, tableBefore, finals>>

\* line 46: df = next(df_iter); at the end of the file StopIteration
\* leaves the loop and main(): the loop has no other exit.
NextLoop ==
    /\ pc = "next_loop"
    /\ \/ /\ HasNext(reader, source.records)
          /\ ~ParserRaises(source.records, reader.currow, chunksize)
          /\ df' = ReadChunk(source.records, reader.currow, chunksize)
          /\ reader' = Advance(reader, df')
          /\ yielded' = Append(yielded, df')
          /\ pc' = "to_datetime_loop"
          /\ err' = err
       \/ /\ HasNext(reader, source.records)
          /\ ParserRaises(source.records, reader.currow, chunksize)
          /\ Raise("ParserError", 46)
          /\ reader' = Exhausted(reader)
          /\ UNCHANGED <<df, yielded>>
       \/ /\ ~HasNext(reader, source.records)
          /\ Raise("StopIteration", 46)
          /\ reader' = Exhausted(reader)
          /\ UNCHANGED <<df, yielded>>
    /\ clock' = clock + 1
    /\ UNCHANGED <<url, csv_name, wrote, source, chunksize, table, engine, t_start, printed, run,
                   dbops, tableBefore, finals>>

\* lines 48-49: the two to_datetime assignments in the loop
NormalizeLoop ==
    /\ pc = "to_datetime_loop"
    /\ \/ /\ ~ToDatetimeRaises(df)
          /\ df' = Normalize(df)
          /\ pc' = "to_sql_loop"
          /\ err' = err
       \/ /\ ToDatetimeRaises(df)
          /\ Raise("DateParseError", 48)
          /\ df' = df
    /\ clock' = clock + 1
    /\ UNCHANGED <<url, csv_name, wrote, source, chunksize, table, engine, reader, t_start, printed,
                   run, yielded, dbops, tableBefore, finals>>

\* line 51: df.to_sql(name=table_name, con=engine, if_exists='append')
AppendLoop ==
    /\ pc = "to_sql_loop"
    /\ \/ /\ table' = ToSql(table, df, IfExistsLoop)
          /\ dbops' = Append(dbops, DbOp(IfExistsLoop, TRUE))
          /\ pc' = "print"
          /\ err' = err
       \/ /\ table' = FailedInsert(table, df)
          /\ dbops' = Append(dbops, DbOp(IfExistsLoop, FALSE))
          /\ Raise("SQLAlchemyError", 51)
    /\ clock' = clock + 1
    /\ UNCHANGED <<url, csv_name, wrote, source, chunksize, engine, reader, df, t_start, printed,
                   run, yielded, tableBefore, finals>>

\* lines 53-55: t_end = time(); print('inserted another chunk...' % (t_end - t_start))
Report ==
    /\ pc = "print"
    /\ printed' = Append(printed, clock - t_start)
    /\ pc' = "loop"
    /\ UNCHANGED <<url, csv_name, wrote, source, chunksize, table, err, engine, reader, df, t_start,
                   clock, yielded, dbops, run, tableBefore, finals>>

\* The script is invoked again with the same url and table_name, after the
\* previous process ended: wget fetches the same file, the database keeps
\* the table.
StartRun ==
    /\ pc = "raised"
    /\ run < MaxRuns
    /\ run' = run + 1
    /\ finals' = Append(finals, [table |-> table, err |-> err])
    /\ tableBefore' = table
    /\ pc' = "download"
    /\ csv_name' = ""
    /\ wrote' = ""
    /\ err' = NoErr
    /\ engine' = "none"
    /\ reader' = NoReader
    /\ df' = NoFrame
    /\ t_start' = 0
    /\ clock' = 0
    /\ printed' = << >>
    /\ yielded' = << >>
    /\ dbops' = << >>
    /\ UNCHANGED <<url, source, chunksize, table>>

\* The driver states of the design, read off the position of main():
\* "DONE" is main() returning, "FAILED" an exception leaving it.
DriverState ==
    CASE pc \in {"download", "create_engine", "read_csv", "next_first",
                 "to_datetime_first", "to_sql_replace"} -> "START"
      [] pc = "to_sql_first" -> "BOOTSTRAPPED"
      [] pc \in {"loop", "next_loop", "to_datetime_loop", "to_sql_loop",
                 "print"} -> "LOADING"
      [] pc = "raised" -> "FAILED"
      [] OTHER -> "DONE"

Next ==
    \/ Download
    \/ CreateEngine
    \/ ReadCsv
    \/ NextFirst
    \/ NormalizeFirst
    \/ Bootstrap
    \/ AppendFirst
    \/ LoopStart
    \/ NextLoop
    \/ NormalizeLoop
    \/ AppendLoop
    \/ Report
    \/ StartRun

Spec == Init /\ [][Next]_vars

\* ================================================================ claims
\* Vocabulary of the claims.
Terminated == pc = "raised"

\* The run read the file to its end and every chunk was appended: the
\* StopIteration of line 46 is the only way the loop ends.
EndOfStream == pc = "raised" /\ err = [kind |-> "StopIteration", line |-> 46]

NumRecords == Len(source.records)
Ceil(n, b) == (n + b - 1) \div b

OpsWhere(op, ok) == {i \in DOMAIN dbops : dbops[i].op = op /\ dbops[i].ok = ok}
Replaces == {i \in DOMAIN dbops : dbops[i].op = "replace"}
Appends == {i \in DOMAIN dbops : dbops[i].op = "append"}

\* A record of the file as the table should hold it: both timestamp
\* columns converted, the other column as read.
Converted(cell) == <<"datetime64[ns]", cell[2]>>
StoredRecord(r) == <<r[1], Converted(r[2]), Converted(r[3])>>

\* Position of a column in a table, and the table's rows cut down to the
\* columns of the file (whatever else the table holds).
ColumnAt(cols, name) == CHOOSE k \in 1..Len(cols) : cols[k] = name
HasCsvColumns(tbl) ==
    \A c \in 1..Len(CsvColumns) : \E k \in 1..Len(tbl.columns) : tbl.columns[k] = CsvColumns[c]
DataRows(tbl) ==
    [j \in 1..Len(tbl.rows) |->
        [c \in 1..Len(CsvColumns) |-> tbl.rows[j][ColumnAt(tbl.columns, CsvColumns[c])]]]

\* The table holds exactly the records 1..m of the file, converted, in order.
HoldsRecords(tbl, m) ==
    /\ tbl.exists
    /\ HasCsvColumns(tbl)
    /\ Len(tbl.rows) = m
    /\ \A j \in 1..m : DataRows(tbl)[j] = StoredRecord(source.records[j])

\* ---- C1: in a run the drop-and-create of the table happens at most once,
\* it is the first statement sent to the database, every append comes after
\* a successful one, it leaves a table with zero rows, and a run that got
\* past line 36 has done it exactly once.
C1_BootstrapOnceBeforeAppends ==
    /\ Cardinality(Replaces) <= 1
    /\ \A i \in Replaces : i = 1
    /\ \A i \in Appends : 1 \in OpsWhere("replace", TRUE) /\ i > 1
    /\ pc = "to_sql_first" => table.exists /\ table.rows = << >>
    /\ DriverState \in {"BOOTSTRAPPED", "LOADING"} =>
          Cardinality(OpsWhere("replace", TRUE)) = 1

\* A whole run with the bootstrap, the first append and a later append.
C1_Witness ==
    /\ EndOfStream
    /\ Cardinality(OpsWhere("append", TRUE)) >= 2
    /\ Cardinality(Replaces) = 1

\* ---- C2 (as claimed): a run over a source with at least one record and
\* with no normalization, parse or load failure ends, once the reader is at
\* the end of the stream, in DONE.
C2_EndsInDone ==
    (NumRecords >= 1 /\ Terminated /\ err.kind \notin {"DateParseError", "SQLAlchemyError",
                                   "ParserError", "EmptyDataError",
                                   "BadGzipFile"})
        => DriverState = "DONE"

\* ---- C3: when every batch of a run has been loaded, the table holds
\* exactly the N records of the file, each once and in order, and none of
\* the rows it held before the run.
C3_TableHoldsSource == EndOfStream => HoldsRecords(table, NumRecords)

\* A complete run over an existing table with rows, several batches.
C3_Witness ==
    /\ EndOfStream
    /\ tableBefore = OldTable
    /\ NumRecords >= 3
    /\ Len(yielded) >= 2

\* ---- C4 (as claimed): after a run that loaded every batch (of a source
\* with at least one record) the table's columns are exactly the columns of
\* the first normalized batch, in order.
C4_ColumnsEqualFirstBatch ==
    (NumRecords >= 1 /\ EndOfStream) => table.columns = yielded[1].columns

\* ---- C5 (as claimed): one event per loaded batch, the first included:
\* when a run over a source with at least one record has loaded all its K
\* batches, K events have been emitted.
C5_OneEventPerBatch ==
    (NumRecords >= 1 /\ EndOfStream) =>
        Len(printed) = Cardinality(OpsWhere("append", TRUE))

\* A frame holds a value pd.to_datetime cannot parse.
HasUnparsable(frame) ==
    \E j \in 1..Len(frame.data) :
        frame.data[j][2][2] = BadText \/ frame.data[j][3][2] = BadText

\* The batch being processed (0-based) and the number of records that
\* came before it in the file.
CurrentBatch == Len(yielded) - 1
RecordsBefore(k) == reader.currow - Len(yielded[k + 1].data)

NormalizationAbort == pc = "raised" /\ err.kind = "DateParseError"

C7_EmptySourceNoBootstrap ==
    NumRecords = 0 =>
        /\ Replaces = {}
        /\ Terminated => \/ err = [kind |-> "EmptyDataError", line |-> 29]
                         \/ err = [kind |-> "StopIteration", line |-> 31]

\* ---- C8: a run that loads every batch after an earlier run that loaded
\* every batch of the same source leaves the table exactly as that earlier
\* run left it.
C8_RerunSameContents ==
    (EndOfStream /\ run >= 2 /\ finals[run - 1].err = err) =>
        table = finals[run - 1].table

\* The second of two complete runs over a source of several batches.
C8_Witness ==
    /\ EndOfStream
    /\ run = 2
    /\ finals[1].err = err
    /\ Len(yielded) >= 2
    /\ Len(table.rows) >= 3

RECURSIVE Flatten(_)
Flatten(frames) ==
    IF frames = << >> THEN << >>
    ELSE frames[1].data \o Flatten(Tail(frames))

ReaderAtEnd == reader.currow = NumRecords /\ ~reader.first_chunk /\ ~reader.open

\* ---- C9 (as claimed): for every batch size B and every source of N
\* records the reader, read to its end, has yielded exactly ceil(N/B)
\* batches.
C9_CeilBatches ==
    (ReaderAtEnd /\ EndOfStream) => Len(yielded) = Ceil(NumRecords, chunksize)

\* ---- What the reader does (the part of C9 that holds, and its case
\* N = 0): the batches the reader has yielded so far are, in order, the records of the file up to its cursor; every batch but the
\* last yielded has exactly B records and none has more; when the reader is
\* at the end of a source of N >= 1 records it has yielded ceil(N/B)
\* batches, none empty, whose sizes sum to N; for N = 0 (a header and no
\* record) it has yielded one empty batch.
ReaderPartitionsSource ==
    /\ Flatten(yielded) = SubSeq(source.records, 1, reader.currow)
    /\ \A i \in 1..Len(yielded) :
          /\ Len(yielded[i].data) <= chunksize
          /\ i < Len(yielded) => Len(yielded[i].data) = chunksize
    /\ EndOfStream =>
          /\ ReaderAtEnd
          /\ Len(Flatten(yielded)) = NumRecords
          /\ IF NumRecords >= 1
             THEN /\ Len(yielded) = Ceil(NumRecords, chunksize)
                  /\ \A i \in 1..Len(yielded) : Len(yielded[i].data) >= 1
             ELSE Len(yielded) = 1 /\ yielded[1].data = << >>

\* A source read to its end in three batches, the last one shorter.
ReaderPartitionsWitness ==
    /\ EndOfStream
    /\ chunksize = 2
    /\ Len(yielded) = 3
    /\ Len(yielded[3].data) = 1

\* ---- C10 (as claimed): when a run has ended, the reader is closed and the
\* engine holds no open connection.
C10_ResourcesReleased ==
    Terminated => ~reader.open /\ engine # "pooled"

\* The bootstrap of this run has been done.
Bootstrapped == 1 \in OpsWhere("replace", TRUE)

\* Number of records in the first j batches the reader yielded.
RecordsIn(j) == Len(Flatten(SubSeq(yielded, 1, j)))

\* ---- C11: in every state after the bootstrap, the state after a failed
\* append included, the table's rows are exactly the rows of the first j
\* batches, whole and in order, for some j >= 0: never part of a batch,
\* never a batch without the ones before it.
C11_TableIsPrefixOfWholeBatches ==
    Bootstrapped =>
        \E j \in 0..Len(yielded) : HoldsRecords(table, RecordsIn(j))

\* A failed append of a batch of two records, after an earlier batch was
\* loaded.
C11_Witness ==
    /\ Terminated
    /\ err = [kind |-> "SQLAlchemyError", line |-> 51]
    /\ Len(df.data) = 2
    /\ Len(table.rows) = 2

\* Batches read and not yet appended.
InFlight == Len(yielded) - Cardinality(OpsWhere("append", TRUE))

\* ---- C12: at most one batch is in flight: a batch is read only when
\* every batch read before it has been appended, the batch handed to
\* to_sql is the last one read, fully converted, and the appends are made
\* in the order the batches were read.
C12_OneBatchInFlight ==
    /\ InFlight \in {0, 1}
    /\ pc \in {"loop", "next_loop"} => InFlight = 0
    /\ pc \in {"to_sql_first", "to_sql_loop"} =>
          /\ Len(df.data) = Len(yielded[Len(yielded)].data)
          /\ \A j \in 1..Len(df.data) :
                df.data[j] = StoredRecord(yielded[Len(yielded)].data[j])
    /\ \A i \in Appends : dbops[i].batch = i - 2

\* The third batch has been read; the two before it are in the table.
C12_Witness ==
    /\ pc = "to_datetime_loop"
    /\ Len(yielded) = 3
    /\ Cardinality(OpsWhere("append", TRUE)) = 2
    /\ Len(table.rows) = 4

\* A step of main() (any statement of the current run).
RunStep ==
    \/ Download \/ CreateEngine \/ ReadCsv \/ NextFirst \/ NormalizeFirst \/ Bootstrap
    \/ AppendFirst \/ LoopStart \/ NextLoop \/ NormalizeLoop \/ AppendLoop
    \/ Report

\* ---- C13: nothing is retried and no batch is written twice: within a
\* run each batch is handed to an append at most once, a rejected to_sql is
\* the last database call of the run, and the first exception of any kind
\* ends the run: after it main() takes no further step.
C13_NoRetryFirstErrorEnds ==
    /\ \A i, j \in Appends : dbops[i].batch = dbops[j].batch => i = j
    /\ \A i \in DOMAIN dbops : ~dbops[i].ok => i = Len(dbops) /\ Terminated
    /\ err.kind # "none" <=> Terminated
    /\ Terminated => ~ENABLED RunStep

\* A run ended by a rejected append after two batches were loaded.
C13_Witness ==
    /\ Terminated
    /\ err.kind = "SQLAlchemyError"
    /\ Cardinality(OpsWhere("append", TRUE)) = 2
    /\ Cardinality(OpsWhere("append", FALSE)) = 1

\* The run failed before line 36: read_csv or the first next() raised, or
\* the conversion of the first batch did.
FailedBeforeBootstrap == Terminated /\ err.line \in {29, 31, 33}

\* ---- C14: a run that fails before the schema bootstrap leaves the
\* destination unchanged: no statement has been sent to the database, a
\* pre-existing table keeps its columns and rows, and no table is created.
\* More generally nothing touches the table before the first to_sql.
C14_FailureBeforeBootstrapLeavesTable ==
    /\ FailedBeforeBootstrap => table = tableBefore /\ dbops = << >>
    /\ dbops = << >> => table = tableBefore

\* The first batch has an unparsable timestamp and a table with rows exists.
C14_Witness ==
    /\ Terminated
    /\ err = [kind |-> "DateParseError", line |-> 33]
    /\ tableBefore = OldTable
    /\ table.rows = OldTable.rows

\* ---- C15 (as claimed): the interval measured for a batch starts after the
\* batch has been read and normalized: when the batch is about to be
\* appended, no time has passed since t_start was taken.
C15_ElapsedIsAppendOnly ==
    pc = "to_sql_loop" => clock = t_start

\* read_csv has been called in this run.
ReadCsvCalled == pc \notin {"download", "create_engine", "read_csv"}

\* ---- C16: for every url, read_csv is called on the file name wget was
\* told to write ('output.csv.gz' when the url ends in '.csv.gz',
\* 'output.csv' otherwise), and always with gzip decompression, whatever
\* the url's suffix and the file name.
C16_ReaderOpensDownloadWithGzip ==
    /\ pc # "download" =>
          /\ wrote = csv_name
          /\ wrote = (IF url.suffix = ".csv.gz" THEN "output.csv.gz"
                      ELSE "output.csv")
    /\ ReadCsvCalled =>
          /\ reader.path = wrote
          /\ reader.compression = "gzip"

\* A url that does not end in '.csv.gz' serving gzipped content: the file
\* saved as 'output.csv' is read through gzip and yields its first batch.
C16_Witness ==
    /\ url.suffix = ".csv"
    /\ wrote = "output.csv"
    /\ reader.open
    /\ reader.compression = "gzip"
    /\ pc = "to_datetime_first"
    /\ Len(df.data) >= 1
====
